---- MODULE Spec2Model ----
(***************************************************************************)
(* The batch translation engine (translate_srt.py), the translation client *)
(* (main.py) and the multi-document worker (gui.py TranslationWorker).     *)
(*                                                                         *)
(* A text is a sequence of one-character strings, so that strip, join and  *)
(* split are computed the way Python computes them.  Python's 0-based      *)
(* positions are kept in the variables (i, idx, current_progress); a       *)
(* sequence element at Python position p is element p+1 here.              *)
(***************************************************************************)
EXTENDS Integers, Sequences, FiniteSets, TLC

\* ------------------------------------------------------------------ bounds
MaxUnits == 3
MaxBatch == 2
MaxFiles == 2
MaxExtra == 1

\* ------------------------------------------------------------------- texts
NL == "\n"
SP == " "

Min(a, b) == IF a < b THEN a ELSE b

Last(s) == s[Len(s)]

\* Sequences over S of length 0..n
SeqUpTo(S, n) == UNION {[1..k -> S] : k \in 0..n}

\* str.strip(): leading and trailing whitespace removed
IsSpace(c) == c \in {SP, NL}

RECURSIVE LStrip(_)
LStrip(s) == IF s # <<>> /\ IsSpace(Head(s)) THEN LStrip(Tail(s)) ELSE s

RECURSIVE RStrip(_)
RStrip(s) == IF s # <<>> /\ IsSpace(s[Len(s)]) THEN RStrip(SubSeq(s, 1, Len(s) - 1)) ELSE s

Strip(s) == RStrip(LStrip(s))

\* "\n".join(text)
RECURSIVE Join(_)
Join(ls) ==
    IF ls = <<>> THEN <<>>
    ELSE IF Len(ls) = 1 THEN ls[1]
    ELSE ls[1] \o <<NL>> \o Join(Tail(ls))

\* result.split('\n'): "" splits to [""]
RECURSIVE Split(_)
Split(s) ==
    IF \A p \in 1..Len(s) : s[p] # NL THEN <<s>>
    ELSE LET p == CHOOSE q \in 1..Len(s) : s[q] = NL /\ \A r \in 1..(q - 1) : s[r] # NL
         IN  <<SubSeq(s, 1, p - 1)>> \o Split(SubSeq(s, p + 1, Len(s)))

\* sub in s (substring test)
Contains(s, sub) ==
    \E p \in 0..(Len(s) - Len(sub)) : SubSeq(s, p + 1, p + Len(sub)) = sub

\* ------------------------------------------------------ translation client
\* A client without the conversion: the line as the model gave it
ConvertNothing(line) == line

\* opencc s2twp on one line: the simplified character "s" becomes "t"
Convert(line) == [p \in 1..Len(line) |-> IF line[p] = "s" THEN "t" ELSE line[p]]

\* "Traditional Chinese" in target_lang
IsTraditional(lang) == lang = "Traditional Chinese"

ErrorWord == <<"E", "r", "r", "o", "r">>

\* f"Error during translation: {str(e)}", abbreviated to its first word and a colon
ErrorMarker == ErrorWord \o <<":">>

\* A Python list of texts, as the engine passes it to translate
ListOf(texts) == [isstr |-> FALSE, val |-> texts]

\* is_batch = isinstance(text, list)
is_batch(text) == ~text.isstr

\* The request translate builds: the text block of the prompt, and whether the
\* prompt carries the directive "...maintain the original line breaks in your
\* output. Do not merge lines."
Request(text) ==
    IF is_batch(text)
    THEN [content |-> Join(text.val), batch_instruction |-> TRUE]
    ELSE [content |-> text.val, batch_instruction |-> FALSE]

\* The value translate returns for a list input.  outcome.fails: ollama.chat (or
\* the reading of its response) raised; outcome.content: the model's answer.
\* A Python str is [isstr |-> TRUE, val |-> text], a list [isstr |-> FALSE, val |-> lines].
translate(text, lang, outcome) ==
    IF outcome.fails THEN [isstr |-> TRUE, val |-> ErrorMarker]
    ELSE LET result == Strip(outcome.content)
             split  == Split(result)
             lines  == IF Len(split) # Len(text)
                       THEN SelectSeq(split, LAMBDA l : Strip(l) # <<>>)
                       ELSE split
             conv   == IF IsTraditional(lang)
                       THEN [p \in 1..Len(lines) |-> Convert(lines[p])]
                       ELSE lines
         IN  [isstr |-> FALSE, val |-> conv]

\* The answers of the model: line p is blank or a translated line, and two
\* translated lines next to each other differ: a simplified character "s", or a
\* translation that is the word "Error"
AnswerLine(p) == IF p % 2 = 1 THEN <<"s">> ELSE ErrorWord

Answers(n) ==
    {[p \in 1..Len(b) |-> IF b[p] THEN AnswerLine(p) ELSE <<>>] : b \in SeqUpTo(BOOLEAN, n)}

\* What the backend can do with a request of m lines: fail, or answer with
\* 0..m+MaxExtra lines
BackendOutcomes(m) ==
    {[fails |-> TRUE, content |-> <<>>]}
    \cup {[fails |-> FALSE, content |-> Join(ls)] : ls \in Answers(m + MaxExtra)}

\* ------------------------------------------------------------- documents
\* Unit texts the documents are built from: empty, whitespace only, plain (a
\* simplified character, as a subtitle already in Chinese has),
\* and with leading and trailing whitespace
SampleTexts == {<<>>, <<SP>>, <<"s">>, <<SP, "b", SP>>}

\* An SRT file: the contents of its blocks, in file order
SrtFiles(n) == SeqUpTo(SampleTexts, n)

\* A text file as readlines() gives it: every line ends with a newline, but
\* for the last, which may lack it (and is then not empty)
TxtFiles(n) ==
    {[p \in 1..Len(d) |-> IF p < Len(d) \/ nl THEN d[p] \o <<NL>> ELSE d[p]] :
        <<d, nl>> \in {x \in SeqUpTo(SampleTexts, n) \X BOOLEAN :
                          x[2] \/ (x[1] # <<>> /\ Last(x[1]) # <<>>)}}

FilesOf(mode, n) == IF mode = "srt" THEN SrtFiles(n) ELSE TxtFiles(n)

\* The time range of the block at position p of a file: blocks follow each other
StartOf(p) == 2 * p
EndOf(p) == 2 * p + 1

\* srt.parse: one Subtitle per block, with the block's index, time range and
\* content, in file order
Parse(content) ==
    [p \in 1..Len(content) |->
        [index |-> p, start |-> StartOf(p), end |-> EndOf(p), content |-> content[p]]]

\* srt.compose(new_subs) with the library's defaults (reindex=True): a subtitle
\* whose content is blank is skipped and the others are renumbered from 1
Compose(units) ==
    LET kept == SelectSeq(units, LAMBDA u : Strip(u.content) # <<>>)
    IN  [p \in 1..Len(kept) |-> [kept[p] EXCEPT !.index = p]]

\* ----------------------------------------------------------------- state
VARIABLES
    file_mode,              \* self.file_mode: "srt" or "txt"
    batch_size,             \* self.batch_size
    target_lang,            \* self.target_lang
    fs,                     \* the files os.walk finds under self.directory
    file_paths,             \* the path of each file of fs
    output_directory,       \* self.output_directory
    is_running,             \* self._is_running
    pc,                     \* where TranslationWorker.run is
    files_to_process,       \* run: numbers of the files of fs to process
    idx,                    \* run: loop index (0-based)
    doc_state,              \* the engine's state for each file of fs
    subs,                   \* translate_srt: the parsed subtitles
    new_subs,               \* translate_srt: new_subs
    lines,                  \* translate_plain_text: lines
    lines_to_process,       \* translate_plain_text: (idx, stripped line) pairs
    translated_lines_map,   \* translate_plain_text: index -> translated text
    i,                      \* the batch loop's index (0-based)
    current_progress,       \* current_progress
    calls,                  \* the calls of translate made so far
    response,               \* what the last call of translate returned
    progress_current_file,  \* the progress_callback reports made so far
    progress_total,         \* the progress_total signals emitted so far
    log_msg,                \* the log_msg signals emitted so far
    finished,               \* how many times the finished signal was emitted
    written                 \* the output written for each file of fs

vars == <<file_mode, batch_size, target_lang, fs, file_paths, output_directory, is_running, pc, files_to_process,
          idx, doc_state, subs, new_subs, lines, lines_to_process,
          translated_lines_map, i, current_progress, calls, response,
          progress_current_file, progress_total, log_msg, finished, written>>

config == <<file_mode, batch_size, target_lang, fs, file_paths, output_directory>>
engine == <<subs, new_subs, lines, lines_to_process, translated_lines_map, i,
            current_progress>>

NoResponse == [isstr |-> FALSE, val |-> <<>>]

\* A path: the directories from the top down, the file's name (a number, its
\* extension being that of the mode) and whether "_zh" follows the name
Path(dir, name) == [dir |-> dir, name |-> name, zh |-> FALSE]

NoPath == [dir |-> <<>>, name |-> 0, zh |-> FALSE]

\* No worker and no output directory: the engine is called with output_path=None
NoDirectory == <<>>

\* The output path of file f.  From the worker, os.path.join(self.output_directory,
\* os.path.basename(file_path)); without one, f"{base_name}_zh{ext}"
OutputPath(f) ==
    IF output_directory = NoDirectory
    THEN [file_paths[f] EXCEPT !.zh = TRUE]
    ELSE [file_paths[f] EXCEPT !.dir = output_directory]

NoOutput == [exists |-> FALSE, out |-> <<>>, path |-> NoPath]

\* The number of the file in hand (1-based)
cur == files_to_process[idx + 1]

\* The configuration, and nothing done yet
InitCommon ==
    /\ is_running = TRUE
    /\ idx = 0
    /\ subs = <<>> /\ new_subs = <<>>
    /\ lines = <<>> /\ lines_to_process = <<>> /\ translated_lines_map = <<>>
    /\ i = 0 /\ current_progress = 0
    /\ calls = <<>> /\ response = NoResponse
    /\ progress_current_file = <<>> /\ progress_total = <<>>
    /\ log_msg = <<>> /\ finished = 0

\* translate_srt or translate_plain_text called on one file of up to MaxUnits
\* units, as translate_srt.py's own command line does
Init ==
    /\ file_mode \in {"srt", "txt"}
    /\ batch_size \in 1..MaxBatch
    /\ target_lang \in {"Traditional Chinese", "Japanese"}
    /\ InitCommon
    /\ fs \in {<<f>> : f \in FilesOf(file_mode, MaxUnits)}
    /\ file_paths = <<Path(<<"in">>, 1)>>
    /\ output_directory = NoDirectory
    /\ files_to_process = <<1>>
    /\ pc = "engine"
    /\ doc_state = <<"Reading">>
    /\ written = <<NoOutput>>

\* The files of a job: short documents
JobFiles(mode) ==
    IF mode = "srt" THEN {<<<<"s">>>>, <<<<>>, <<SP, "b", SP>>>>}
    ELSE {<<<<"s", NL>>>>, <<<<NL>>, <<SP, "b", SP>>>>}

\* TranslationWorker.__init__ on a directory of up to MaxFiles files; run has
\* not started
InitJob ==
    /\ file_mode \in {"srt", "txt"}
    /\ batch_size = 1
    /\ target_lang = "Traditional Chinese"
    /\ InitCommon
    /\ fs \in SeqUpTo(JobFiles(file_mode), MaxFiles)
    /\ file_paths = [f \in 1..Len(fs) |-> Path(<<"in">>, f)]
    /\ output_directory = <<"out">>
    /\ files_to_process = <<>>
    /\ pc = "init"
    /\ doc_state = [f \in 1..Len(fs) |-> "Idle"]
    /\ written = [f \in 1..Len(fs) |-> NoOutput]

\* The directories of an input tree, the names its files can have, and its files
Directories == {<<"in">>, <<"in", "sub">>}

FileNames == {1, 2}

TreeFiles == {Path(d, n) : d \in Directories, n \in FileNames}

\* os.walk, top down: the files of a directory come before those of the
\* directories under it
WalkBefore(a, b) ==
    \/ Len(a.dir) < Len(b.dir)
    \/ Len(a.dir) = Len(b.dir) /\ a.name < b.name

Walks ==
    {w \in SeqUpTo(TreeFiles, MaxFiles) : \A p \in 1..(Len(w) - 1) : WalkBefore(w[p], w[p + 1])}

\* The document every file of a tree holds
TreeDoc(mode) == IF mode = "srt" THEN <<<<>>, <<SP, "b", SP>>>> ELSE <<<<NL>>, <<SP, "b", SP>>>>

\* TranslationWorker.__init__ on any tree of up to MaxFiles files, with the
\* output directory the input directory itself or another one
InitTree ==
    /\ file_mode \in {"srt", "txt"}
    /\ batch_size = 1
    /\ target_lang = "Traditional Chinese"
    /\ InitCommon
    /\ file_paths \in Walks
    /\ output_directory \in {<<"in">>, <<"out">>}
    /\ fs = [f \in 1..Len(file_paths) |-> TreeDoc(file_mode)]
    /\ files_to_process = <<>>
    /\ pc = "init"
    /\ doc_state = [f \in 1..Len(fs) |-> "Idle"]
    /\ written = [f \in 1..Len(fs) |-> NoOutput]

\* ------------------------------------------------------ engine, per batch
\* An error test that also looks into the lines of a list
IsErrorMarkerLoose(ret) ==
    IF ret.isstr THEN Contains(ret.val, ErrorWord)
    ELSE \E j \in 1..Len(ret.val) : Contains(ret.val[j], ErrorWord)

\* isinstance(translated_texts, str) and "Error" in translated_texts
IsErrorMarker(ret) == ret.isstr /\ Contains(ret.val, ErrorWord)

\* The list the engine goes on with: the original texts of the batch for an
\* error marker, a one-element list for any other str, the list itself otherwise
Fallback(ret, texts) ==
    IF ret.isstr
    THEN IF Contains(ret.val, ErrorWord) THEN texts ELSE <<ret.val>>
    ELSE ret.val

\* Pad without the padding loop
PadNothing(list, m) == list

\* while len(translated_texts) < len(batch): translated_texts.append("")
Pad(list, m) == list \o [p \in 1..(m - Len(list)) |-> <<>>]

\* WriteBack with a new subtitle made for each text, its time range not copied
WriteBackFresh(units, start, m, list) ==
    [p \in 1..Len(units) |->
        IF p > start /\ p <= start + m /\ p - start <= Len(list)
        THEN [index |-> units[p].index, start |-> 0, end |-> 0, content |-> list[p - start]]
        ELSE units[p]]

\* for idx, sub in enumerate(batch): if idx < len(translated_texts):
\*     sub.content = translated_texts[idx]
\* on the m subtitles that follow position start
WriteBack(units, start, m, list) ==
    [p \in 1..Len(units) |->
        IF p > start /\ p <= start + m /\ p - start <= Len(list)
        THEN [units[p] EXCEPT !.content = list[p - start]]
        ELSE units[p]]

\* for idx_in_batch, trans_text in enumerate(translated_results):
\*     if idx_in_batch < len(batch_indices):
\*         translated_lines_map[batch_indices[idx_in_batch]] = trans_text
MapBack(map, batch_indices, list) ==
    LET n    == Min(Len(list), Len(batch_indices))
        keys == {batch_indices[p] : p \in 1..n}
    IN  [k \in DOMAIN map \cup keys |->
            IF k \in keys
            THEN list[CHOOSE p \in 1..n : batch_indices[p] = k]
            ELSE map[k]]

\* lines_to_process: the (index, stripped line) pairs of the lines that are
\* not blank, in order (index 0-based)
RECURSIVE NonBlank(_, _)
NonBlank(ls, p) ==
    IF p > Len(ls) THEN <<>>
    ELSE (IF Strip(ls[p]) # <<>> THEN <<<<p - 1, Strip(ls[p])>>>> ELSE <<>>)
         \o NonBlank(ls, p + 1)

\* output_lines: the translated text and a newline for an index of the map,
\* the original line for any other
Reconstruct(ls, map) ==
    [p \in 1..Len(ls) |-> IF (p - 1) \in DOMAIN map THEN map[p - 1] \o <<NL>> ELSE ls[p]]

Log(doc, msg) == log_msg' = Append(log_msg, [doc |-> doc, msg |-> msg])
Log2(doc, m1, m2) ==
    log_msg' = log_msg \o <<[doc |-> doc, msg |-> m1], [doc |-> doc, msg |-> m2]>>

\* progress_callback(current, total), which the worker forwards to the
\* progress_current_file signal
Report(p, t) ==
    progress_current_file' =
        Append(progress_current_file, [doc |-> cur, by |-> "engine", p |-> p, t |-> t])


SetState(st) == doc_state' = [doc_state EXCEPT ![cur] = st]

driver == <<is_running, files_to_process, idx, progress_total, finished>>

\* --------------------------------------------------- translate_srt (engine)
\* Lines 27-46: read and parse the file
ReadSrt ==
    /\ pc = "engine" /\ file_mode = "srt" /\ doc_state[cur] = "Reading"
    /\ \/ \* open() raises an error that is no UnicodeDecodeError: nothing
          \* catches it in translate_srt
          /\ Log(cur, "Reading")
          /\ SetState("Raised") /\ pc' = "after"
          /\ UNCHANGED engine
       \/ \* neither utf-8 nor utf-8-sig decodes the file
          /\ Log2(cur, "Reading", "ErrorReading")
          /\ SetState("Failed") /\ pc' = "after"
          /\ UNCHANGED engine
       \/ \* srt.parse raises
          /\ Log2(cur, "Reading", "ErrorParsing")
          /\ SetState("Failed") /\ pc' = "after"
          /\ UNCHANGED engine
       \/ /\ Log2(cur, "Reading", "Translating")
          /\ SetState("Translating") /\ pc' = "engine"
          /\ subs' = Parse(fs[cur])
          /\ new_subs' = <<>>
          /\ current_progress' = 0
          /\ i' = 0
          /\ UNCHANGED <<lines, lines_to_process, translated_lines_map>>
    /\ UNCHANGED <<config, driver, calls, response, progress_current_file, written>>

\* Lines 62-100: one turn of the batch loop, for the batch that starts at i
BatchSrt ==
    /\ pc = "engine" /\ file_mode = "srt" /\ doc_state[cur] = "Translating"
    /\ i < Len(subs)
    /\ LET m == Min(batch_size, Len(subs) - i)
           texts_to_translate == [p \in 1..m |-> Strip(subs[i + p].content)]
       IN  \/ \* not any(texts_to_translate): the batch is passed on as it is
              /\ \A p \in 1..m : texts_to_translate[p] = <<>>
              /\ new_subs' = new_subs \o SubSeq(subs, i + 1, i + m)
              /\ current_progress' = current_progress + m
              /\ Report(current_progress + m, Len(subs))
              /\ UNCHANGED <<subs, calls, response, log_msg>>
           \/ /\ \E p \in 1..m : texts_to_translate[p] # <<>>
              /\ \E outcome \in BackendOutcomes(m) :
                   LET ret == translate(texts_to_translate, target_lang, outcome)
                       translated_texts == Pad(Fallback(ret, texts_to_translate), m)
                       after == WriteBack(subs, i, m, translated_texts)
                   IN  /\ calls' = Append(calls,
                              [doc |-> cur, i |-> i, text |-> texts_to_translate,
                               failed |-> outcome.fails,
                               is_batch |-> is_batch(ListOf(texts_to_translate)),
                               batch_instruction |->
                                   Request(ListOf(texts_to_translate)).batch_instruction])
                       /\ response' = ret
                       /\ IF IsErrorMarker(ret)
                          THEN Log(cur, "BatchError")
                          ELSE UNCHANGED log_msg
                       /\ subs' = after
                       /\ new_subs' = new_subs \o SubSeq(after, i + 1, i + m)
                       /\ current_progress' = current_progress + m
                       /\ Report(current_progress + m, Len(subs))
    /\ i' = i + batch_size
    /\ UNCHANGED <<config, driver, pc, doc_state, lines, lines_to_process,
                   translated_lines_map, written>>

\* Lines 102-116: the loop is over; compose and write the output
SaveSrt ==
    /\ pc = "engine" /\ file_mode = "srt" /\ doc_state[cur] = "Translating"
    /\ i >= Len(subs)
    /\ \/ \* os.makedirs raises
          /\ SetState("Raised")
          /\ UNCHANGED <<log_msg, written>>
       \/ \* open(output_path, "w") raises
          /\ Log(cur, "Saving")
          /\ SetState("Raised")
          /\ UNCHANGED written
       \/ /\ Log2(cur, "Saving", "Done")
          /\ SetState("Done")
          /\ written' = [written EXCEPT ![cur] = [exists |-> TRUE, out |-> Compose(new_subs),
                                                 path |-> OutputPath(cur)]]
    /\ pc' = "after"
    /\ UNCHANGED <<config, driver, engine, calls, response, progress_current_file>>

\* -------------------------------------------- translate_plain_text (engine)
\* Lines 130-159: read the file and find the lines to translate
ReadTxt ==
    /\ pc = "engine" /\ file_mode = "txt" /\ doc_state[cur] = "Reading"
    /\ \/ \* not os.path.exists(file_path)
          /\ Log(cur, "NotFound")
          /\ SetState("Failed") /\ pc' = "after"
          /\ UNCHANGED engine
       \/ \* open or readlines raises
          /\ Log2(cur, "Reading", "ErrorReading")
          /\ SetState("Failed") /\ pc' = "after"
          /\ UNCHANGED engine
       \/ /\ Log2(cur, "Reading", "Translating")
          /\ SetState("Translating") /\ pc' = "engine"
          /\ lines' = fs[cur]
          /\ lines_to_process' = NonBlank(fs[cur], 1)
          /\ translated_lines_map' = <<>>
          /\ current_progress' = 0
          /\ i' = 0
          /\ UNCHANGED <<subs, new_subs>>
    /\ UNCHANGED <<config, driver, calls, response, progress_current_file, written>>

\* Lines 173-201: one turn of the batch loop, for the batch that starts at i
BatchTxt ==
    /\ pc = "engine" /\ file_mode = "txt" /\ doc_state[cur] = "Translating"
    /\ i < Len(lines_to_process)
    /\ LET batch_tuples  == SubSeq(lines_to_process, i + 1,
                                   Min(i + batch_size, Len(lines_to_process)))
           batch_indices == [p \in 1..Len(batch_tuples) |-> batch_tuples[p][1]]
           batch_texts   == [p \in 1..Len(batch_tuples) |-> batch_tuples[p][2]]
       IN  \E outcome \in BackendOutcomes(Len(batch_texts)) :
             LET ret == translate(batch_texts, target_lang, outcome)
                 translated_results == Pad(Fallback(ret, batch_texts), Len(batch_texts))
             IN  /\ calls' = Append(calls,
                          [doc |-> cur, i |-> i, text |-> batch_texts,
                           failed |-> outcome.fails,
                           is_batch |-> is_batch(ListOf(batch_texts)),
                           batch_instruction |->
                               Request(ListOf(batch_texts)).batch_instruction])
                 /\ response' = ret
                 /\ IF IsErrorMarker(ret)
                    THEN Log(cur, "BatchError")
                    ELSE UNCHANGED log_msg
                 /\ translated_lines_map' =
                        MapBack(translated_lines_map, batch_indices, translated_results)
                 /\ current_progress' = current_progress + Len(batch_tuples)
                 /\ Report(current_progress + Len(batch_tuples), Len(lines_to_process))
    /\ i' = i + batch_size
    /\ UNCHANGED <<config, driver, pc, doc_state, subs, new_subs, lines,
                   lines_to_process, written>>

\* Lines 203-225: the loop is over; rebuild the lines and write the output
SaveTxt ==
    /\ pc = "engine" /\ file_mode = "txt" /\ doc_state[cur] = "Translating"
    /\ i >= Len(lines_to_process)
    /\ \/ \* os.makedirs raises
          /\ SetState("Raised")
          /\ UNCHANGED <<log_msg, written>>
       \/ \* open(output_path, "w") raises
          /\ Log(cur, "Saving")
          /\ SetState("Raised")
          /\ UNCHANGED written
       \/ /\ Log2(cur, "Saving", "Done")
          /\ SetState("Done")
          /\ written' = [written EXCEPT ![cur] =
                            [exists |-> TRUE, out |-> Reconstruct(lines, translated_lines_map),
                             path |-> OutputPath(cur)]]
    /\ pc' = "after"
    /\ UNCHANGED <<config, driver, engine, calls, response, progress_current_file>>

\* ------------------------------------------------ TranslationWorker (driver)
\* run, lines 35-53: list the files; with none, say so and finish
RunStart ==
    /\ pc = "init"
    /\ files_to_process' = [p \in 1..Len(fs) |-> p]
    /\ \/ /\ Len(fs) = 0
          /\ Log(0, "NoFiles")
          /\ finished' = finished + 1
          /\ pc' = "finished"
       \/ /\ Len(fs) > 0
          /\ Log2(0, "Found", "OutputDir")
          /\ pc' = "loop"
          /\ UNCHANGED finished
    /\ UNCHANGED <<config, is_running, idx, doc_state, engine, calls, response,
                   progress_current_file, progress_total, written>>

\* LoopEnter without the test of self._is_running
LoopEnterUnchecked ==
    /\ pc = "loop"
    /\ idx < Len(files_to_process)
    /\ pc' = "start"
    /\ UNCHANGED <<config, driver, doc_state, engine, calls, response,
                   progress_current_file, log_msg, written>>

\* run, lines 55-56: the loop has a next file and self._is_running is read True
LoopEnter ==
    /\ pc = "loop"
    /\ idx < Len(files_to_process)
    /\ is_running
    /\ pc' = "start"
    /\ UNCHANGED <<config, driver, doc_state, engine, calls, response, progress_current_file,
                   log_msg, written>>

\* LoopExit where the break on self._is_running leaves run without the signal
LoopExitOnBreak ==
    /\ pc = "loop"
    /\ idx >= Len(files_to_process) \/ ~is_running
    /\ Log(0, "AllDone")
    /\ finished' = IF idx >= Len(files_to_process) THEN finished + 1 ELSE finished
    /\ pc' = "finished"
    /\ UNCHANGED <<config, is_running, files_to_process, idx, doc_state, engine,
                   calls, response, progress_current_file, progress_total, written>>

\* run, lines 55-57 and 106-107: the files are exhausted, or self._is_running
\* is read False and the loop breaks
LoopExit ==
    /\ pc = "loop"
    /\ idx >= Len(files_to_process) \/ ~is_running
    /\ Log(0, "AllDone")
    /\ finished' = finished + 1
    /\ pc' = "finished"
    /\ UNCHANGED <<config, is_running, files_to_process, idx, doc_state, engine,
                   calls, response, progress_current_file, progress_total, written>>

\* run, lines 59-100: announce the file and call the engine on it
StartDoc ==
    /\ pc = "start"
    /\ Log(cur, "Start")
    /\ progress_total' = Append(progress_total, <<idx, Len(files_to_process)>>)
    /\ progress_current_file' =
          Append(progress_current_file, [doc |-> cur, by |-> "run", p |-> 0, t |-> 100])
    /\ SetState("Reading")
    /\ pc' = "engine"
    /\ UNCHANGED <<config, is_running, files_to_process, idx, finished, engine,
                   calls, response, written>>

\* AfterDoc without the try/except around the engine: an exception ends run
AfterDocUncaught ==
    /\ pc = "after"
    /\ IF doc_state[cur] = "Raised"
       THEN /\ pc' = "finished"
            /\ UNCHANGED <<log_msg, progress_total, idx>>
       ELSE /\ progress_total' = Append(progress_total, <<idx + 1, Len(files_to_process)>>)
            /\ idx' = idx + 1
            /\ pc' = "loop"
            /\ UNCHANGED log_msg
    /\ UNCHANGED <<config, is_running, files_to_process, finished, doc_state, engine,
                   calls, response, progress_current_file, written>>

\* run, lines 101-104: the engine returned or raised
AfterDoc ==
    /\ pc = "after"
    /\ IF doc_state[cur] = "Raised"
       THEN Log(cur, "Exception")
       ELSE UNCHANGED log_msg
    /\ progress_total' = Append(progress_total, <<idx + 1, Len(files_to_process)>>)
    /\ idx' = idx + 1
    /\ pc' = "loop"
    /\ UNCHANGED <<config, is_running, files_to_process, finished, doc_state, engine,
                   calls, response, progress_current_file, written>>

\* stop(), called by the caller's thread at any time
Stop ==
    /\ is_running' = FALSE
    /\ UNCHANGED <<config, pc, files_to_process, idx, doc_state, engine, calls, response,
                   progress_current_file, progress_total, log_msg, finished, written>>

\* The engine on one document
Next ==
    \/ ReadSrt \/ BatchSrt \/ SaveSrt
    \/ ReadTxt \/ BatchTxt \/ SaveTxt

Spec == Init /\ [][Next]_vars

\* The worker's job, with the caller's stop() at any time
NextJob ==
    \/ RunStart \/ LoopEnter \/ LoopExit \/ StartDoc \/ AfterDoc \/ Stop
    \/ Next

SpecJob == InitJob /\ [][NextJob]_vars

\* The steps of the worker's thread: all of run, the engine included, none of
\* which waits for anything but the backend's answer
Worker ==
    \/ RunStart \/ LoopEnter \/ LoopExit \/ StartDoc \/ AfterDoc
    \/ Next

\* The job when the worker's thread keeps running and every backend call
\* returns; the caller may call stop() at any time, or never
SpecJobFair == SpecJob /\ WF_vars(Worker)

\* The worker's job on any input tree and output directory
SpecTree == InitTree /\ [][NextJob]_vars


\* ================================================================ claims
\* What the claims are stated with
Files == 1..Len(fs)

Ceil(n, k) == (n + k - 1) \div k

CallsOf(f) == SelectSeq(calls, LAMBDA c : c.doc = f)

ReportsOf(f) == SelectSeq(progress_current_file, LAMBDA r : r.doc = f /\ r.by = "engine")

LogsOf(f) == SelectSeq(log_msg, LAMBDA l : l.doc = f)

Logged(f, msg) == \E p \in 1..Len(log_msg) : log_msg[p] = [doc |-> f, msg |-> msg]

\* The stripped texts of the non-empty units of file f, in order
NonEmptyUnits(f) ==
    LET ne == SelectSeq(fs[f], LAMBDA t : Strip(t) # <<>>)
    IN  [p \in 1..Len(ne) |-> Strip(ne[p])]

\* A line without its line end
Chomp(line) == IF line # <<>> /\ Last(line) = NL THEN SubSeq(line, 1, Len(line) - 1) ELSE line

\* The document in hand has been through its whole batch loop
LoopOver ==
    /\ pc \in {"engine", "after"}
    /\ doc_state[cur] \in {"Translating", "Done"}
    /\ i >= (IF file_mode = "srt" THEN Len(subs) ELSE Len(lines_to_process))

\* C1 (count invariant): the output written for a document has as many units as
\* the document: as many blocks as the SRT file, as many lines as the text file.
C1_CountInvariant ==
    \A f \in Files : written[f].exists => Len(written[f].out) = Len(fs[f])

\* C2 (batch boundaries): once the batch loop of a document with n non-empty
\* units is over, translate has been called Ceil(n / batch_size) times, and call
\* number c carried the non-empty units (c-1)*k+1 .. min(c*k, n), in order.
C2_BatchBoundaries ==
    LoopOver =>
        LET ne == NonEmptyUnits(cur)
            n  == Len(ne)
            cs == CallsOf(cur)
        IN  /\ Len(cs) = Ceil(n, batch_size)
            /\ \A c \in 1..Len(cs) :
                  cs[c].text = SubSeq(ne, (c - 1) * batch_size + 1, Min(c * batch_size, n))

\* C3 (empty units): no call of translate carries a text that is empty once
\* stripped, and a unit whose stripped text is empty is handed to serialization
\* with the text it had in the input.
C3_EmptyUnitsPassThrough ==
    /\ \A c \in 1..Len(calls) : \A p \in 1..Len(calls[c].text) : Strip(calls[c].text[p]) # <<>>
    /\ pc \in {"engine", "after"} /\ file_mode = "srt" =>
          \A p \in 1..Len(new_subs) :
              Strip(fs[cur][p]) = <<>> => new_subs[p].content = fs[cur][p]
    /\ \A f \in Files : written[f].exists /\ file_mode = "txt" =>
          \A p \in 1..Len(fs[f]) : Strip(fs[f][p]) = <<>> => written[f].out[p] = fs[f][p]


\* C4 (pad/truncate): when translate returns a list of r strings for a batch of
\* m units, unit j of the batch receives string j if j <= r and the empty string
\* otherwise, and nothing else is written: every unit outside the batch keeps
\* what it had, so the strings m+1..r reach no unit.
C4_PadTruncate ==
    [][ (calls' # calls /\ ~response'.isstr) =>
          LET c == Last(calls')
              m == Len(c.text)
              r == Len(response'.val)
              Given(j) == IF j <= r THEN response'.val[j] ELSE <<>>
          IN  IF file_mode = "srt"
              THEN /\ Len(subs') = Len(subs)
                   /\ \A p \in 1..Len(subs) :
                         IF p > c.i /\ p <= c.i + m
                         THEN subs'[p].content = Given(p - c.i)
                         ELSE subs'[p] = subs[p]
                   /\ new_subs' = new_subs \o SubSeq(subs', c.i + 1, c.i + m)
              ELSE LET keys == {lines_to_process[c.i + j][1] : j \in 1..m}
                   IN  /\ DOMAIN translated_lines_map' = DOMAIN translated_lines_map \cup keys
                       /\ \A j \in 1..m :
                             translated_lines_map'[lines_to_process[c.i + j][1]] = Given(j)
                       /\ \A k \in DOMAIN translated_lines_map \ keys :
                             translated_lines_map'[k] = translated_lines_map[k]
      ]_vars

\* C4's case: the first batch (two units) got a shorter list, so that its second
\* unit was padded, and the second batch (one unit) got a longer list
C4_Witness ==
    /\ file_mode = "srt" /\ batch_size = 2
    /\ Len(calls) = 2 /\ ~Logged(1, "BatchError")
    /\ Strip(fs[1][2]) # <<>> /\ subs[2].content = <<>>
    /\ ~response.isstr /\ Len(response.val) > Len(Last(calls).text)

\* Every call made for file f ended in the error fallback
AllCallsFailed(f) ==
    Len(SelectSeq(LogsOf(f), LAMBDA l : l.msg = "BatchError")) = Len(CallsOf(f))

\* C5 (fallback is the identity): when every call of translate returned an error
\* marker, every unit has, at the end of the batch loop, the text it had in the
\* input, leading and trailing whitespace included.
C5_FallbackIdentity ==
    LoopOver /\ AllCallsFailed(cur) =>
        IF file_mode = "srt"
        THEN \A p \in 1..Len(new_subs) : new_subs[p].content = fs[cur][p]
        ELSE \A k \in DOMAIN translated_lines_map :
                 translated_lines_map[k] = Chomp(fs[cur][k + 1])

\* The number of batches of the document in hand
Batches ==
    Ceil(IF file_mode = "srt" THEN Len(subs) ELSE Len(lines_to_process), batch_size)

\* C6 (a failed batch is local): right after a call of translate that failed, the
\* engine is still translating the document, has logged the failure, and the
\* units of that batch have their source text; and at the end of the loop every
\* batch of the document has been gone through.
C6_BatchFailureIsLocal ==
    /\ ( /\ pc = "engine" /\ calls # <<>> /\ IsErrorMarker(response)
         /\ i = Last(calls).i + batch_size )
       => LET c == Last(calls)
              m == Len(c.text)
          IN  /\ doc_state[cur] = "Translating"
              /\ Last(log_msg) = [doc |-> cur, msg |-> "BatchError"]
              /\ IF file_mode = "srt"
                 THEN \A p \in (c.i + 1)..(c.i + m) : subs[p].content = fs[cur][p]
                 ELSE \A j \in 1..m :
                        LET k == lines_to_process[c.i + j][1]
                        IN  translated_lines_map[k] = Chomp(fs[cur][k + 1])
    /\ LoopOver => Len(ReportsOf(cur)) = Batches

\* File f ended before its translation began
ReadFailure(f) == doc_state[f] \in {"Failed", "Raised"} /\ ~Logged(f, "Translating")

\* C9 (reading failure): a document that cannot be read or parsed ends in Failed,
\* with the failure as the last message of the log callback, without a call of
\* translate, a progress report or an output; and no document in Failed has a
\* call of translate behind it.
C9_ReadingFailure ==
    \A f \in Files :
        /\ ReadFailure(f) =>
              /\ doc_state[f] = "Failed"
              /\ Last(LogsOf(f)).msg \in {"ErrorReading", "ErrorParsing", "NotFound"}
              /\ CallsOf(f) = <<>>
              /\ ReportsOf(f) = <<>>
              /\ ~written[f].exists
        /\ doc_state[f] = "Failed" => CallsOf(f) = <<>>

\* C10 (progress within a document): every report (p, t) of the engine has t =
\* the number of non-empty units of the document and p <= t, p grows strictly
\* from one report to the next, and the last report of a document that is Done
\* has p = t.
C10_Progress ==
    \A f \in Files :
        LET rs == ReportsOf(f)
            n  == Len(NonEmptyUnits(f))
        IN  /\ \A q \in 1..Len(rs) :
                  /\ rs[q].t = n
                  /\ rs[q].p <= rs[q].t
                  /\ q > 1 => rs[q - 1].p < rs[q].p
            /\ doc_state[f] = "Done" /\ rs # <<>> => Last(rs).p = n


Ended(f) == doc_state[f] \in {"Done", "Failed", "Raised"}

\* C7 (a failed document does not stop the job): when run has finished without
\* stop() having been called, every file of the job was started and brought to
\* its end, whatever happened to the files before it, and the last progress
\* across documents was (total, total).
C7_DocumentFailureIsolation ==
    (pc = "finished" /\ is_running /\ Len(fs) > 0) =>
        /\ \A f \in Files : Logged(f, "Start") /\ Ended(f)
        /\ progress_total # <<>>
        /\ Last(progress_total) = <<Len(fs), Len(fs)>>

\* C7's case: the first document failed with an exception, the second one was
\* still translated and the job finished
C7_Witness ==
    /\ pc = "finished" /\ is_running /\ Len(fs) = 2
    /\ doc_state[1] = "Raised" /\ doc_state[2] = "Done"
    /\ Last(progress_total) = <<2, 2>>

\* The engine leaves a document it has begun to translate only with the whole
\* batch loop done and the output written, or through an error of the output
EngineRunsToCompletion ==
    (pc = "engine" /\ doc_state[cur] = "Translating" /\ pc' = "after") =>
        /\ i >= (IF file_mode = "srt" THEN Len(subs) ELSE Len(lines_to_process))
        /\ Len(ReportsOf(cur)) = Batches
        /\ doc_state'[cur] = "Done" => written'[cur].exists

\* C8 as claimed: once stop() has been called no document is started, and a
\* document in flight runs to its end.
C8_NoStartAfterStop ==
    [][ /\ ~is_running => \A f \in Files : doc_state[f] = "Idle" => doc_state'[f] = "Idle"
        /\ EngineRunsToCompletion
      ]_vars

\* C8, amended: self._is_running is read at the head of the loop only; once
\* stop() has been called the loop head lets no further document through, a
\* document is started only after the loop head let it through (so the one that
\* had passed it when stop() came is still started), and a document in flight
\* runs to its end.
C8_StopAtDocumentBoundaries ==
    [][ /\ (~is_running /\ pc = "loop") => pc' # "start"
        /\ \A f \in Files :
              (doc_state[f] = "Idle" /\ doc_state'[f] # "Idle") => (pc = "start" /\ f = cur)
        /\ (is_running' # is_running) => (pc' = pc /\ doc_state' = doc_state /\ i' = i)
        /\ EngineRunsToCompletion
      ]_vars

\* C8's case: stop() came after the first document had passed the loop head;
\* that document was translated and written, the second one was never started
C8_Witness ==
    /\ ~is_running /\ pc = "finished" /\ Len(fs) = 2
    /\ doc_state[1] = "Done" /\ written[1].exists
    /\ doc_state[2] = "Idle"


\* C11 (only text mutates): the subtitles handed to serialization are, in number
\* and order, those parsed (one per block once the loop is over, the first ones
\* while it runs), each with the index and the time range it was parsed with.
C11_OnlyTextMutates ==
    (file_mode = "srt" /\ pc \in {"engine", "after"} /\ Logged(cur, "Translating")) =>
        LET parsed == Parse(fs[cur])
        IN  /\ Len(subs) = Len(parsed)
            /\ Len(new_subs) = Min(i, Len(parsed))
            /\ \A p \in 1..Len(new_subs) :
                  /\ new_subs[p].index = parsed[p].index
                  /\ new_subs[p].start = parsed[p].start
                  /\ new_subs[p].end = parsed[p].end

\* C11's case: three subtitles in batches of two, the first batch padded, the
\* second one kept by the error fallback; all three are handed on
C11_Witness ==
    /\ file_mode = "srt" /\ batch_size = 2 /\ LoopOver
    /\ Len(new_subs) = 3
    /\ Strip(fs[1][2]) # <<>> /\ new_subs[2].content = <<>>
    /\ IsErrorMarker(response)

\* C12 (plain-text positional reconstruction): the written text output has one
\* line per line of the input, in order; a blank or whitespace-only line is the
\* original line, and a translatable line is its unit's current text followed
\* by a newline exactly when the original line ended with one.
C12_PositionalReconstruction ==
    (file_mode = "txt" /\ written[cur].exists) =>
        LET out == written[cur].out
            src == fs[cur]
        IN  /\ Len(out) = Len(src)
            /\ \A p \in 1..Len(src) :
                  IF Strip(src[p]) = <<>>
                  THEN out[p] = src[p]
                  ELSE out[p] = translated_lines_map[p - 1] \o
                                    (IF Last(src[p]) = NL THEN <<NL>> ELSE <<>>)

\* C13 (script normalization): when a call of translate returns a list and the
\* target language is Traditional Chinese, every returned string has gone through
\* the conversion (it is a fixed point of it and holds no simplified character);
\* when the target language is another one, no returned string holds a converted
\* character; and when the call failed, the units of the batch hold their
\* stripped source text, simplified characters included.
C13_ScriptNormalization ==
    [][ calls' # calls =>
          LET c == Last(calls')
              m == Len(c.text)
          IN  IF ~response'.isstr
              THEN \A j \in 1..Len(response'.val) :
                      IF IsTraditional(target_lang)
                      THEN /\ Convert(response'.val[j]) = response'.val[j]
                           /\ ~Contains(response'.val[j], <<"s">>)
                      ELSE ~Contains(response'.val[j], <<"t">>)
              ELSE IF file_mode = "srt"
                   THEN \A p \in (c.i + 1)..(c.i + m) : subs'[p].content = Strip(fs[cur][p])
                   ELSE \A j \in 1..m :
                          LET k == lines_to_process[c.i + j][1]
                          IN  translated_lines_map'[k] = Strip(fs[cur][k + 1])
      ]_vars

\* C13's case: a document of three subtitles in batches of two, target language
\* Traditional Chinese; the first call failed and its unit keeps its simplified
\* character, the second call answered and its unit holds the converted one
C13_Witness ==
    /\ file_mode = "srt" /\ batch_size = 2 /\ IsTraditional(target_lang)
    /\ Len(fs[1]) = 3 /\ Len(calls) = 2
    /\ Logged(1, "BatchError") /\ subs[1].content = <<"s">>
    /\ ~response.isstr /\ subs[3].content = <<"t">>

\* C14 (request shape by input size): a request carries the directive to keep
\* one output line per input line exactly when its input has more than one
\* element, and the response is split into lines exactly then: the answer to a
\* single-element input comes back as one text, not as a list of lines.
C14_RequestShape ==
    /\ \A c \in 1..Len(calls) :
          /\ calls[c].batch_instruction <=> Len(calls[c].text) > 1
          /\ calls[c].is_batch <=> Len(calls[c].text) > 1
    /\ (calls # <<>> /\ Len(Last(calls).text) = 1) => response.isstr

\* C15 (terminal completion signal): every run of the job emits finished in the
\* end, never emits it twice, and after it emits no log message and no progress
\* of either kind.
C15_TerminalSignal ==
    /\ <>(finished = 1)
    /\ [](finished <= 1)
    /\ [][finished >= 1 => UNCHANGED <<log_msg, progress_total, progress_current_file, finished>>]_vars

\* C15's case: a run cancelled by stop() after its first document, with files
\* left over, has emitted finished
C15_Witness ==
    /\ pc = "finished" /\ finished = 1
    /\ ~is_running /\ idx >= 1 /\ idx < Len(files_to_process)

\* C16 (outputs never clobber): the outputs written within one job have pairwise
\* different paths, and none of them is the path of a file of the input tree
\* that the job processes.
C16_NoClobber ==
    \A f \in Files : written[f].exists =>
        /\ \A g \in Files \ {f} : written[g].exists => written[g].path # written[f].path
        /\ \A g \in Files : written[f].path # file_paths[g]

\* C17 (error detection is exact): at every call of translate, the engine logs
\* the batch error and keeps the batch's source texts exactly when the backend
\* call failed; after a call that did not fail, no error is logged and the units
\* of the batch hold the returned lines (or the empty string past the last
\* one), also when a returned line contains "Error"; after a failed call no unit
\* holds the error marker.
C17_ErrorDetectionExact ==
    [][ calls' # calls =>
          LET c == Last(calls')
              m == Len(c.text)
              r == Len(response'.val)
              Given(j) == IF j <= r THEN response'.val[j] ELSE <<>>
              Unit(j) == IF file_mode = "srt" THEN subs'[c.i + j].content
                         ELSE translated_lines_map'[lines_to_process[c.i + j][1]]
              errorLogged == /\ Len(log_msg') = Len(log_msg) + 1
                             /\ Last(log_msg') = [doc |-> cur, msg |-> "BatchError"]
          IN  /\ errorLogged <=> c.failed
              /\ ~c.failed => /\ log_msg' = log_msg
                              /\ ~response'.isstr
                              /\ \A j \in 1..m : Unit(j) = Given(j)
              /\ c.failed => \A j \in 1..m : /\ Unit(j) = c.text[j]
                                             /\ ~Contains(Unit(j), ErrorMarker)
      ]_vars

\* C17's case: a call that did not fail returned the line "Error", which is now
\* the text of a unit, and no batch error was logged
C17_Witness ==
    /\ file_mode = "srt" /\ calls # <<>>
    /\ \A c \in 1..Len(calls) : ~calls[c].failed
    /\ ~Logged(1, "BatchError")
    /\ \E p \in 1..Len(subs) : subs[p].content = ErrorWord

====
